---------------------------- MODULE Spec2Model ----------------------------
(***************************************************************************)
(* Model of src/src/App.jsx: the block statistics table (statsByBlock),    *)
(* its key-indexed view (statsMap), the selected block key and the         *)
(* severity classifier (getSeverity).                                      *)
(*                                                                         *)
(* A JavaScript string is a sequence of one-character strings, so that     *)
(* trim(), toLowerCase() and localeCompare() are computed character by     *)
(* character.  null and undefined are the one value NULL.                  *)
(***************************************************************************)
EXTENDS Integers, Sequences, FiniteSets

VARIABLES
    complaints,        \* the imported complaints array (input, never written)
    blocksGeoJson,     \* the imported boundary dataset (input, never written)
    pc,                \* position inside the statsByBlock computation / render
    idx,               \* index of the next element of the running loop
    map,               \* the Map of the computation, in insertion order
    statsByBlock,      \* the sorted array the computation returns
    statsMap,          \* the lookup object: key -> entry
    selectedBlockKey,  \* the useState cell
    locale,            \* the runtime's default locale (input, never written)
    lastOp,            \* history: the last selection operation and its argument
    count,             \* argument of a getSeverity call
    severity           \* result of that call, "pending" before it

vars == <<complaints, blocksGeoJson, pc, idx, map, statsByBlock, statsMap,
          selectedBlockKey, locale, lastOp, count, severity>>

(***************************************************************************)
(* Bounds of the model.                                                    *)
(***************************************************************************)
MaxRecords == 2

MaxFeatures == 2

MaxCount == 60

(***************************************************************************)
(* Values.                                                                 *)
(***************************************************************************)
NULL == <<"null">>

EmptyString == <<>>

\* The raw names the inputs are drawn from: absent, blank, and names that
\* differ in case and surrounding blanks for the keys a, b and aa.
BlockNames ==
    { NULL, <<" ">>, <<"a">>, <<"A", " ">>, <<" ", "B">>, <<"a", "a">> }

\* Names that are names of members of the lookup object or of an entry.
ConstructorName == <<"c", "o", "n", "s", "t", "r", "u", "c", "t", "o", "r">>

ProtoName == <<"_", "_", "p", "r", "o", "t", "o", "_", "_">>

KeyName == <<"k", "e", "y">>

LabelName == <<"l", "a", "b", "e", "l">>

TotalName == <<"t", "o", "t", "a", "l">>

ComplaintsName == <<"c", "o", "m", "p", "l", "a", "i", "n", "t", "s">>

\* JavaScript truthiness of a string-or-null value.
Truthy(v) == v # NULL /\ v # EmptyString

\* a || b on string-or-null values.
OrElse(a, b) == IF Truthy(a) THEN a ELSE b

thresholds == [lowMax |-> 3, mediumMax |-> 5]

\* Variant: the thresholds taken as exclusive upper bounds.
getSeverityStrict(n) ==
    IF n < thresholds.lowMax THEN "low"
    ELSE IF n < thresholds.mediumMax THEN "medium"
    ELSE "high"

getSeverity(n) ==
    IF n <= thresholds.lowMax THEN "low"
    ELSE IF n <= thresholds.mediumMax THEN "medium"
    ELSE "high"

(***************************************************************************)
(* String operations.                                                      *)
(***************************************************************************)
IsWhiteSpace(ch) == ch = " "

RECURSIVE TrimStart(_)
TrimStart(s) ==
    IF s = <<>> THEN <<>>
    ELSE IF IsWhiteSpace(Head(s)) THEN TrimStart(Tail(s))
    ELSE s

RECURSIVE TrimEnd(_)
TrimEnd(s) ==
    IF s = <<>> THEN <<>>
    ELSE IF IsWhiteSpace(s[Len(s)]) THEN TrimEnd(SubSeq(s, 1, Len(s) - 1))
    ELSE s

Trim(s) == TrimEnd(TrimStart(s))

LowerChar(ch) ==
    CASE ch = "A" -> "a"
      [] ch = "B" -> "b"
      [] OTHER -> ch

ToLowerCase(s) == [n \in 1..Len(s) |-> LowerChar(s[n])]

normalizeBlockName(name) == ToLowerCase(Trim(OrElse(name, EmptyString)))


(***************************************************************************)
(* The Map of statsByBlock: a sequence of entries in insertion order, at   *)
(* most one entry per key.                                                 *)
(***************************************************************************)
MapHas(m, key) == \E n \in 1..Len(m) : m[n].key = key

MapIndex(m, key) == CHOOSE n \in 1..Len(m) : m[n].key = key

NewEntry(key, label) ==
    [key |-> key, label |-> label, total |-> 0, complaints |-> <<>>]

\* Variant: only the first complaint of a key is pushed.
Pass1BodyCountOnly(m, c) ==
    LET key == normalizeBlockName(c.block)
        m1  == IF MapHas(m, key) THEN m ELSE Append(m, NewEntry(key, c.block))
        n   == MapIndex(m1, key)
    IN  IF ~Truthy(key) THEN m
        ELSE [m1 EXCEPT ![n].total = @ + 1,
                        ![n].complaints = IF @ = <<>> THEN <<c>> ELSE @]

\* Variant: without the skip of a complaint whose key is empty.
Pass1BodyCountAll(m, c) ==
    LET key == normalizeBlockName(c.block)
        m1  == IF MapHas(m, key) THEN m ELSE Append(m, NewEntry(key, c.block))
        n   == MapIndex(m1, key)
    IN  [m1 EXCEPT ![n].total = @ + 1, ![n].complaints = Append(@, c)]

\* One iteration of the loop over complaints.
Pass1Body(m, c) ==
    LET key == normalizeBlockName(c.block)
        m1  == IF MapHas(m, key) THEN m ELSE Append(m, NewEntry(key, c.block))
        n   == MapIndex(m1, key)
    IN  IF ~Truthy(key) THEN m
        ELSE [m1 EXCEPT ![n].total = @ + 1, ![n].complaints = Append(@, c)]

\* f.properties?.[BLOCK_NAME_PROP]
RawName(f) == IF f.hasProperties THEN f.block_name ELSE NULL

UnknownBlock ==
    <<"U", "n", "k", "n", "o", "w", "n", " ", "b", "l", "o", "c", "k">>

\* Variant: the label of an existing entry is kept.
Pass2BodyKeepLabel(m, f) ==
    LET rawName == RawName(f)
        key     == normalizeBlockName(rawName)
    IN  IF ~Truthy(key) THEN m
        ELSE IF ~MapHas(m, key)
             THEN Append(m, NewEntry(key, OrElse(rawName, UnknownBlock)))
             ELSE m

\* Variant: a feature of a new key adds no entry.
Pass2BodyNoInsert(m, f) ==
    LET rawName == RawName(f)
        key     == normalizeBlockName(rawName)
    IN  IF ~Truthy(key) THEN m
        ELSE IF ~MapHas(m, key)
             THEN m
             ELSE IF Truthy(rawName)
                  THEN [m EXCEPT ![MapIndex(m, key)].label = rawName]
                  ELSE m

\* One call of the forEach callback over the features.
Pass2Body(m, f) ==
    LET rawName == RawName(f)
        key     == normalizeBlockName(rawName)
    IN  IF ~Truthy(key) THEN m
        ELSE IF ~MapHas(m, key)
             THEN Append(m, NewEntry(key, OrElse(rawName, UnknownBlock)))
             ELSE IF Truthy(rawName)
                  THEN [m EXCEPT ![MapIndex(m, key)].label = rawName]
                  ELSE m

(***************************************************************************)
(* String.prototype.localeCompare, called without a locale argument: the   *)
(* comparison is that of the runtime's default locale.  Over the blank,    *)
(* the underscore, the lower-case letters and A, B the locales differ in   *)
(* three tailorings:                                                       *)
(*   - ignorePunctuation (th-TH): blanks and underscores are ignored;      *)
(*   - caseFirst upper (da-DK): at equal letters, upper case goes first;   *)
(*   - the contraction of da-DK: aa, Aa and AA are one letter (that of a   *)
(*     with ring), which sorts after every other letter.                   *)
(* en-US has none of them (the root collation): blank, then underscore,    *)
(* then the letters in alphabetical order regardless of their case, then   *)
(* lower case before upper case.                                           *)
(* Strings are compared by the primary weights of their collation          *)
(* elements, and strings equal at that level by the case of the elements.  *)
(***************************************************************************)
Locales == {"en-US", "th-TH", "da-DK"}

IgnorePunctuation(loc) == loc = "th-TH"

UpperFirst(loc) == loc = "da-DK"

ContractsAa(loc) == loc = "da-DK"

Alphabet ==
    << "a", "b", "c", "d", "e", "f", "g", "h", "i", "j", "k", "l", "m",
       "n", "o", "p", "q", "r", "s", "t", "u", "v", "w", "x", "y", "z" >>

IsLetter(ch) == \E n \in 1..Len(Alphabet) : Alphabet[n] = ch

\* A collation element is a character, or one of the contractions.
PrimaryWeight(el) ==
    CASE el = " " -> 1
      [] el = "_" -> 2
      [] IsLetter(LowerChar(el)) ->
            2 + (CHOOSE n \in 1..Len(Alphabet) : Alphabet[n] = LowerChar(el))
      [] el \in {"aa", "Aa", "AA"} -> 3 + Len(Alphabet)
      [] OTHER -> 4 + Len(Alphabet)

\* Lower case 0, mixed case 1, upper case 2.
CaseOf(el) ==
    CASE el \in {"A", "B", "AA"} -> 2
      [] el = "Aa" -> 1
      [] OTHER -> 0

TertiaryWeight(loc, el) == IF UpperFirst(loc) THEN 2 - CaseOf(el) ELSE CaseOf(el)

\* The contractions of s, taken from left to right.
RECURSIVE Contract(_)
Contract(s) ==
    IF s = <<>> THEN <<>>
    ELSE IF Len(s) >= 2 /\ s[1] = "a" /\ s[2] = "a"
         THEN <<"aa">> \o Contract(SubSeq(s, 3, Len(s)))
    ELSE IF Len(s) >= 2 /\ s[1] = "A" /\ s[2] = "a"
         THEN <<"Aa">> \o Contract(SubSeq(s, 3, Len(s)))
    ELSE IF Len(s) >= 2 /\ s[1] = "A" /\ s[2] = "A"
         THEN <<"AA">> \o Contract(SubSeq(s, 3, Len(s)))
    ELSE <<Head(s)>> \o Contract(Tail(s))

\* The collation elements of s that take part in the comparison.
CollationElements(loc, s) ==
    LET NotIgnored(ch) == ch \notin {" ", "_"}
    IN  IF IgnorePunctuation(loc) THEN SelectSeq(s, NotIgnored)
        ELSE IF ContractsAa(loc) THEN Contract(s)
        ELSE s

RECURSIVE LexCompare(_, _)
LexCompare(u, v) ==
    IF u = <<>> /\ v = <<>> THEN 0
    ELSE IF u = <<>> THEN -1
    ELSE IF v = <<>> THEN 1
    ELSE IF Head(u) < Head(v) THEN -1
    ELSE IF Head(u) > Head(v) THEN 1
    ELSE LexCompare(Tail(u), Tail(v))

\* a.localeCompare(b) in a runtime whose default locale is loc.
Collate(loc, a, b) ==
    LET ea == CollationElements(loc, a)
        eb == CollationElements(loc, b)
        p  == LexCompare([n \in 1..Len(ea) |-> PrimaryWeight(ea[n])],
                         [n \in 1..Len(eb) |-> PrimaryWeight(eb[n])])
    IN  IF p # 0 THEN p
        ELSE LexCompare([n \in 1..Len(ea) |-> TertiaryWeight(loc, ea[n])],
                        [n \in 1..Len(eb) |-> TertiaryWeight(loc, eb[n])])

localeCompare(a, b) == Collate(locale, a, b)

\* Variant: a.total - b.total, the lowest total first.
CompareAscending(a, b) ==
    IF a.total - b.total # 0 THEN a.total - b.total
    ELSE localeCompare(a.label, b.label)

\* The comparator handed to sort:
\* b.total - a.total || a.label.localeCompare(b.label)
Compare(a, b) ==
    IF b.total - a.total # 0 THEN b.total - a.total
    ELSE localeCompare(a.label, b.label)

\* Array.prototype.sort is stable: an element goes after every element that
\* does not compare greater than it.
RECURSIVE InsertSorted(_, _)
InsertSorted(s, e) ==
    IF s = <<>> THEN <<e>>
    ELSE IF Compare(s[Len(s)], e) <= 0 THEN Append(s, e)
    ELSE Append(InsertSorted(SubSeq(s, 1, Len(s) - 1), e), s[Len(s)])

RECURSIVE SortEntries(_)
SortEntries(s) ==
    IF s = <<>> THEN <<>>
    ELSE InsertSorted(SortEntries(SubSeq(s, 1, Len(s) - 1)), s[Len(s)])

\* const m = {}: no own member, and the prototype Object.prototype.
EmptyObject == [own |-> <<>>, proto |-> <<>>]

\* m[b.key] = b.  Under the name __proto__ the assignment runs the setter
\* that plain objects inherit: it creates no own member and makes b the
\* prototype of m.  Under any other name it creates or overwrites the own
\* member of that name.
Assign(m, b) ==
    IF b.key = ProtoName THEN [m EXCEPT !.proto = <<b>>]
    ELSE [m EXCEPT !.own = [k \in DOMAIN m.own \cup {b.key} |->
                               IF k = b.key THEN b ELSE m.own[k]]]

\* The lookup object: its own members (key -> entry) and, as proto, the
\* entry that has become its prototype, if any.
RECURSIVE BuildStatsMap(_)
BuildStatsMap(s) ==
    IF s = <<>> THEN EmptyObject
    ELSE Assign(BuildStatsMap(SubSeq(s, 1, Len(s) - 1)), s[Len(s)])

\* The values a look-up can yield.
EntryValue(e) == [type |-> "entry", entry |-> e]

StringValue(str) == [type |-> "string", chars |-> str]

NumberValue(n) == [type |-> "number", number |-> n]

ArrayValue(a) == [type |-> "array", elements |-> a]

\* Object.prototype.constructor
ObjectFunction == [type |-> "function", name |-> "Object"]

ObjectPrototype == [type |-> "object", name |-> "Object.prototype"]

EntryMembers == {KeyName, LabelName, TotalName, ComplaintsName}

\* e[name] for a member name of the entry e.
MemberValue(e, name) ==
    CASE name = KeyName -> StringValue(e.key)
      [] name = LabelName -> StringValue(e.label)
      [] name = TotalName -> NumberValue(e.total)
      [] name = ComplaintsName -> ArrayValue(e.complaints)

\* The members of Object.prototype with a lower-case name (a key is lower
\* case, so no other member of it can be looked up).
InheritedMembers == {ConstructorName, ProtoName}

\* m[key] on the lookup object, as a sequence of no value (undefined) or one
\* value.  The look-up goes along the prototype chain: the own members of m,
\* then the members of the entry that is the prototype of m, then those of
\* Object.prototype, where __proto__ is a getter that yields the prototype
\* of m.
LookUp(m, key) ==
    IF key \in DOMAIN m.own THEN <<EntryValue(m.own[key])>>
    ELSE IF m.proto # <<>> /\ key \in EntryMembers
         THEN <<MemberValue(m.proto[1], key)>>
    ELSE IF key = ConstructorName THEN <<ObjectFunction>>
    ELSE IF key = ProtoName
         THEN IF m.proto # <<>> THEN <<EntryValue(m.proto[1])>>
              ELSE <<ObjectPrototype>>
    ELSE <<>>

\* Truthiness of a value: the number 0 and the empty string are falsy.
TruthyValue(v) ==
    /\ v.type = "number" => v.number # 0
    /\ v.type = "string" => v.chars # EmptyString

\* selectedBlockKey ? statsMap[selectedBlockKey] || null : null, as a sequence
\* of no value (null) or one value.
Selected ==
    IF Truthy(selectedBlockKey)
    THEN SelectSeq(LookUp(statsMap, selectedBlockKey), TruthyValue)
    ELSE <<>>

\* {selected && <BlockDetailsModal .../>}
ModalShown == Selected # <<>>


(***************************************************************************)
(* Inputs.                                                                 *)
(***************************************************************************)
\* The complaints arrays: records with ids 1, 2, ... and a raw block name.
\* The arrays of names: over the block names, and over a block name and the
\* name __proto__.
BlockNameArrays ==
    UNION { [1..len -> BlockNames] \cup [1..len -> {<<"a">>, ProtoName}] :
              len \in 0..MaxRecords }

ComplaintArrays ==
    { [n \in 1..Len(names) |-> [id |-> n, block |-> names[n]]] :
        names \in BlockNameArrays }

\* A feature has a properties object holding a block name, or no properties
\* object at all (its raw name is then undefined, as it is when the
\* properties hold no block name).
FeaturesNamed(names) ==
    { [hasProperties |-> TRUE, block_name |-> nm] : nm \in names }
        \cup { [hasProperties |-> FALSE, block_name |-> NULL] }

\* The features of a collection take the names of the complaints.
Features == FeaturesNamed(BlockNames \ {NULL})

\* Features named after a block and after __proto__, with a leading blank.
ProtoFeatures ==
    { [hasProperties |-> TRUE, block_name |-> nm] :
        nm \in {<<"a">>, <<" ">> \o ProtoName} }

\* A dataset that is a single Feature may also bear the name of a member of
\* the lookup object or of an entry.
SingleFeatures ==
    FeaturesNamed((BlockNames \ {NULL})
                      \cup InheritedMembers \cup EntryMembers)

FeatureArrays ==
    UNION { [1..len -> Features] \cup [1..len -> ProtoFeatures] :
              len \in 0..MaxFeatures }

\* The boundary dataset: undefined; an object without a features member; an
\* object whose features member is falsy (null, 0, ""); an object whose
\* features member is a truthy value that is no array and has no forEach
\* (a plain object, a number, a string); an object holding an array of
\* features (a FeatureCollection); a single Feature object, which has no
\* features member (features then holds that one feature, for the layer).
GeoJsonValues ==
    { [kind |-> k, features |-> <<>>] :
        k \in {"undefined", "noFeatures", "falsyFeatures", "nonSequence"} }
        \cup { [kind |-> "sequence", features |-> fs] : fs \in FeatureArrays }
        \cup { [kind |-> "feature", features |-> <<f>>] : f \in SingleFeatures }

\* blocksGeoJson?.features || []
FeaturesOrEmpty(geo) == IF geo.kind = "sequence" THEN geo.features ELSE <<>>

\* The features the <GeoJSON data={blocksGeoJson}> layer draws and hands to
\* onEachFeature: those of a FeatureCollection, or the dataset itself when it
\* is a single Feature.
LayerFeatures(geo) ==
    IF geo.kind \in {"sequence", "feature"} THEN geo.features ELSE <<>>

\* Whether features.forEach is a function.
HasForEach(geo) == geo.kind # "nonSequence"

NoOp == [op |-> "none", key |-> NULL]

Init ==
    /\ complaints \in ComplaintArrays
    /\ blocksGeoJson \in GeoJsonValues
    /\ pc = "pass1"
    /\ idx = 1
    /\ map = <<>>
    /\ statsByBlock = <<>>
    /\ statsMap = EmptyObject
    /\ selectedBlockKey = NULL
    /\ locale \in Locales
    /\ lastOp = NoOp
    /\ count = 0
    /\ severity = "pending"

(***************************************************************************)
(* The statsByBlock computation, one loop iteration per step.              *)
(***************************************************************************)
Pass1Step ==
    /\ pc = "pass1"
    /\ idx <= Len(complaints)
    /\ map' = Pass1Body(map, complaints[idx])
    /\ idx' = idx + 1
    /\ UNCHANGED <<complaints, blocksGeoJson, pc, statsByBlock, statsMap,
                   selectedBlockKey, locale, lastOp, count, severity>>

\* const features = blocksGeoJson?.features || []; features.forEach(...)
\* throws a TypeError when features has no forEach.
BeginPass2 ==
    /\ pc = "pass1"
    /\ idx > Len(complaints)
    /\ pc' = IF HasForEach(blocksGeoJson) THEN "pass2" ELSE "fault"
    /\ idx' = 1
    /\ UNCHANGED <<complaints, blocksGeoJson, map, statsByBlock, statsMap,
                   selectedBlockKey, locale, lastOp, count, severity>>

Pass2Step ==
    /\ pc = "pass2"
    /\ idx <= Len(FeaturesOrEmpty(blocksGeoJson))
    /\ map' = Pass2Body(map, FeaturesOrEmpty(blocksGeoJson)[idx])
    /\ idx' = idx + 1
    /\ UNCHANGED <<complaints, blocksGeoJson, pc, statsByBlock, statsMap,
                   selectedBlockKey, locale, lastOp, count, severity>>

\* The sort that ends the computation, and the statsMap memo of the same render.
SortAndRender ==
    /\ pc = "pass2"
    /\ idx > Len(FeaturesOrEmpty(blocksGeoJson))
    /\ statsByBlock' = SortEntries(map)
    /\ statsMap' = BuildStatsMap(SortEntries(map))
    /\ pc' = "done"
    /\ UNCHANGED <<complaints, blocksGeoJson, idx, map,
                   selectedBlockKey, locale, lastOp, count, severity>>

(***************************************************************************)
(* The selection: setSelectedBlockKey from the block list, from a polygon  *)
(* of the map, and from the modal's close handlers.                        *)
(***************************************************************************)
\* Variant: selecting the selected key clears the selection.
OnSelectToggle(cur, key) == IF cur = key THEN NULL ELSE key

\* setSelectedBlockKey(key)
OnSelect(cur, key) == key

\* setSelectedBlockKey(null)
OnDismiss(cur) == NULL

\* onClick={() => setSelectedBlockKey(b.key)} of a block pill
ClickPill ==
    /\ pc = "done"
    /\ \E n \in 1..Len(statsByBlock) :
        /\ selectedBlockKey' = OnSelect(selectedBlockKey, statsByBlock[n].key)
        /\ lastOp' = [op |-> "select", key |-> statsByBlock[n].key]
    /\ UNCHANGED <<complaints, blocksGeoJson, pc, idx, map, statsByBlock,
                   statsMap, locale, count, severity>>

\* layer.on("click", ...) of onEachFeature: the key is the normalized name of
\* the polygon's feature.
ClickPolygon ==
    /\ pc = "done"
    /\ \E n \in 1..Len(LayerFeatures(blocksGeoJson)) :
        LET rawName == OrElse(RawName(LayerFeatures(blocksGeoJson)[n]),
                              EmptyString)
            key     == normalizeBlockName(rawName)
        IN  /\ selectedBlockKey' = OnSelect(selectedBlockKey, key)
            /\ lastOp' = [op |-> "select", key |-> key]
    /\ UNCHANGED <<complaints, blocksGeoJson, pc, idx, map, statsByBlock,
                   statsMap, locale, count, severity>>

\* onClose={() => setSelectedBlockKey(null)}: the modal exists only while
\* selected is not null.
CloseModal ==
    /\ pc = "done"
    /\ ModalShown
    /\ selectedBlockKey' = OnDismiss(selectedBlockKey)
    /\ lastOp' = [op |-> "dismiss", key |-> NULL]
    /\ UNCHANGED <<complaints, blocksGeoJson, pc, idx, map, statsByBlock,
                   statsMap, locale, count, severity>>

Next ==
    \/ Pass1Step
    \/ BeginPass2
    \/ Pass2Step
    \/ SortAndRender
    \/ ClickPill
    \/ ClickPolygon
    \/ CloseModal

Spec == Init /\ [][Next]_vars

(***************************************************************************)
(* getSeverity as a function of its argument alone.                        *)
(***************************************************************************)
InitSeverity ==
    /\ complaints = <<>>
    /\ blocksGeoJson = [kind |-> "undefined", features |-> <<>>]
    /\ pc = "classify"
    /\ idx = 1
    /\ map = <<>>
    /\ statsByBlock = <<>>
    /\ statsMap = EmptyObject
    /\ selectedBlockKey = NULL
    /\ locale = "en-US"
    /\ lastOp = NoOp
    /\ count \in (0 - MaxCount)..MaxCount
    /\ severity = "pending"

CallGetSeverity ==
    /\ pc = "classify"
    /\ severity' = getSeverity(count)
    /\ pc' = "classified"
    /\ UNCHANGED <<complaints, blocksGeoJson, idx, map, statsByBlock,
                   statsMap, selectedBlockKey, locale, lastOp, count>>

NextSeverity == CallGetSeverity

SpecSeverity == InitSeverity /\ [][NextSeverity]_vars


(***************************************************************************)
(* What the claims speak of, stated on the inputs.                         *)
(***************************************************************************)
\* The records among the first upto complaints whose normalized block name
\* is key, in input order.
RecordsWithKey(key, upto) ==
    LET HasKey(c) == normalizeBlockName(c.block) = key
    IN  SelectSeq(SubSeq(complaints, 1, upto), HasKey)

\* The number of complaints with a non-empty normalized block name.
ValidRecordCount ==
    Cardinality({ n \in 1..Len(complaints) :
                    normalizeBlockName(complaints[n].block) # EmptyString })

RECURSIVE SumTotals(_)
SumTotals(s) == IF s = <<>> THEN 0 ELSE Head(s).total + SumTotals(Tail(s))

TheFeatures == FeaturesOrEmpty(blocksGeoJson)

FeatureKey(n) == normalizeBlockName(RawName(TheFeatures[n]))

\* The positions of the output entries whose key is key.
EntriesWithKey(key) == { n \in 1..Len(statsByBlock) : statsByBlock[n].key = key }

\* The positions of the features whose normalized name is key.
FeaturesWithKey(key) == { n \in 1..Len(TheFeatures) : FeatureKey(n) = key }

Max(S) == CHOOSE x \in S : \A y \in S : y <= x

\* The complaints the loop over complaints has gone through.
Processed == IF pc = "pass1" THEN idx - 1 ELSE Len(complaints)

(***************************************************************************)
(* C1 (conservation): once the complaints are read, through every step     *)
(* over the features and in the sorted output, the totals add up to the    *)
(* number of complaints with a non-empty normalized block name, and every  *)
(* entry's total is the number of complaints of its key: the features add  *)
(* nothing to a total and take nothing from it.                            *)
(***************************************************************************)
C1_Conservation ==
    /\ pc \in {"pass2", "done"} =>
        /\ SumTotals(map) = ValidRecordCount
        /\ \A n \in 1..Len(map) :
              map[n].total = Len(RecordsWithKey(map[n].key, Len(complaints)))
    /\ pc = "done" =>
        /\ SumTotals(statsByBlock) = ValidRecordCount
        /\ \A n \in 1..Len(statsByBlock) :
              statsByBlock[n].total =
                  Len(RecordsWithKey(statsByBlock[n].key, Len(complaints)))

\* A finished table over complaints with and without a name, where a feature
\* shares its key with a complaint.
C1_Witness ==
    /\ pc = "done"
    /\ ValidRecordCount >= 1
    /\ ValidRecordCount < Len(complaints)
    /\ \E n \in 1..Len(statsByBlock) :
          /\ statsByBlock[n].total >= 1
          /\ FeaturesWithKey(statsByBlock[n].key) # {}

(***************************************************************************)
(* C2 (coverage) as claimed: the normalized name of every feature is the   *)
(* key of exactly one entry of the output.                                 *)
(***************************************************************************)
C2_CoverageEveryName ==
    pc = "done" =>
        \A n \in 1..Len(TheFeatures) :
            Cardinality(EntriesWithKey(FeatureKey(n))) = 1

(***************************************************************************)
(* C2 (coverage), amended: every non-empty normalized feature name is the  *)
(* key of exactly one entry of the output; when no complaint has that key  *)
(* the entry has total 0 and no records.  A feature whose normalized name  *)
(* is empty has no entry.                                                  *)
(***************************************************************************)
C2_Coverage ==
    pc = "done" =>
        \A n \in 1..Len(TheFeatures) :
            IF FeatureKey(n) = EmptyString
            THEN EntriesWithKey(FeatureKey(n)) = {}
            ELSE /\ Cardinality(EntriesWithKey(FeatureKey(n))) = 1
                 /\ RecordsWithKey(FeatureKey(n), Len(complaints)) = <<>> =>
                      \A m \in EntriesWithKey(FeatureKey(n)) :
                          /\ statsByBlock[m].total = 0
                          /\ statsByBlock[m].complaints = <<>>

\* Two features of different raw names and one key that no complaint has,
\* beside a complaint of another key.
C2_Witness ==
    /\ pc = "done"
    /\ ValidRecordCount >= 1
    /\ \E n1, n2 \in 1..Len(TheFeatures) :
          /\ n1 # n2
          /\ FeatureKey(n1) = FeatureKey(n2)
          /\ FeatureKey(n1) # EmptyString
          /\ RawName(TheFeatures[n1]) # RawName(TheFeatures[n2])
          /\ RecordsWithKey(FeatureKey(n1), Len(complaints)) = <<>>
          /\ \E m \in 1..Len(statsByBlock) :
                statsByBlock[m].key = FeatureKey(n1) /\ statsByBlock[m].total = 0

(***************************************************************************)
(* C3 (label precedence): in the output, the label of an entry whose key   *)
(* has a complaint and a feature is the raw name of a feature (of the last *)
(* feature of that key), whatever the complaints call the block; the label *)
(* of an entry whose key only complaints have is the raw block name of the *)
(* first complaint of that key.                                            *)
(***************************************************************************)
C3_LabelPrecedence ==
    pc = "done" =>
        \A n \in 1..Len(statsByBlock) :
            LET e    == statsByBlock[n]
                recs == RecordsWithKey(e.key, Len(complaints))
                fs   == FeaturesWithKey(e.key)
            IN  /\ (recs # <<>> /\ fs # {}) =>
                      e.label = RawName(TheFeatures[Max(fs)])
                /\ (recs # <<>> /\ fs = {}) => e.label = recs[1].block

\* An entry with a complaint and a feature whose raw names differ, and an
\* entry of two complaints of different raw names and no feature.
C3_Witness ==
    /\ pc = "done"
    /\ \E n \in 1..Len(statsByBlock) :
          LET e == statsByBlock[n]
          IN  /\ e.total >= 1
              /\ FeaturesWithKey(e.key) # {}
              /\ e.label # RecordsWithKey(e.key, Len(complaints))[1].block
    /\ \E n \in 1..Len(statsByBlock) :
          LET e == statsByBlock[n]
          IN  /\ e.total >= 1
              /\ FeaturesWithKey(e.key) = {}

(***************************************************************************)
(* C4 (ordering): of two adjacent entries of the output, the first has the *)
(* greater total, or the same total and a label that is not after the      *)
(* second's in the comparison of the runtime's locale.                     *)
(***************************************************************************)
C4_Ordering ==
    pc = "done" =>
        \A n \in 1..(Len(statsByBlock) - 1) :
            LET a == statsByBlock[n]
                b == statsByBlock[n + 1]
            IN  \/ a.total > b.total
                \/ a.total = b.total /\ localeCompare(a.label, b.label) <= 0

\* Three entries that the sort has moved, two of them with the same total
\* and labels that the runtime's locale orders otherwise than en-US does.
C4_Witness ==
    /\ pc = "done"
    /\ Len(statsByBlock) = 3
    /\ statsByBlock # map
    /\ \E n \in 1..2 :
          /\ statsByBlock[n].total = statsByBlock[n + 1].total
          /\ Collate("en-US", statsByBlock[n].label,
                     statsByBlock[n + 1].label) > 0
    /\ \E n \in 1..2 : statsByBlock[n].total > statsByBlock[n + 1].total

(***************************************************************************)
(* C5: at every step of the computation, every entry's total is the length *)
(* of its record sequence, and that sequence is the complaints of its key  *)
(* gone through so far, in input order; in the output it is all the        *)
(* complaints of its key, in input order.                                  *)
(***************************************************************************)
C5_TotalIsLength ==
    /\ pc \in {"pass1", "pass2", "done", "fault"} =>
        \A n \in 1..Len(map) :
            /\ map[n].total = Len(map[n].complaints)
            /\ map[n].complaints = RecordsWithKey(map[n].key, Processed)
    /\ pc = "done" =>
        \A n \in 1..Len(statsByBlock) :
            /\ statsByBlock[n].total = Len(statsByBlock[n].complaints)
            /\ statsByBlock[n].complaints =
                   RecordsWithKey(statsByBlock[n].key, Len(complaints))

\* An output entry of two complaints whose raw block names differ.
C5_Witness ==
    /\ pc = "done"
    /\ \E n \in 1..Len(statsByBlock) :
          /\ statsByBlock[n].total = 2
          /\ statsByBlock[n].complaints[1].block
                 # statsByBlock[n].complaints[2].block

(***************************************************************************)
(* C6 (selection): the selection is null when no operation has happened or *)
(* the last one was a dismissal, and is the key k when the last operation  *)
(* selected k, also when k was selected already; the steps of the          *)
(* computation leave it alone.                                             *)
(***************************************************************************)
C6_Selection ==
    /\ lastOp.op = "none" => selectedBlockKey = NULL
    /\ lastOp.op = "dismiss" => selectedBlockKey = NULL
    /\ lastOp.op = "select" => selectedBlockKey = lastOp.key
    /\ pc # "done" => lastOp.op = "none"

\* A key of the table has been selected.
C6_Witness ==
    /\ lastOp.op = "select"
    /\ selectedBlockKey = lastOp.key
    /\ EntriesWithKey(selectedBlockKey) # {}

(***************************************************************************)
(* C7 (stale selection) as claimed: when the selected key is the key of no *)
(* entry of the table, the look-up yields no entry and no modal is shown;  *)
(* when it is the key of an entry, the look-up yields that entry.          *)
(***************************************************************************)
C7_Lookup ==
    pc = "done" =>
        IF EntriesWithKey(selectedBlockKey) = {}
        THEN Selected = <<>> /\ ~ModalShown
        ELSE \A n \in EntriesWithKey(selectedBlockKey) :
                Selected = <<EntryValue(statsByBlock[n])>>

(***************************************************************************)
(* C8 (severity): for a count n >= 0 the classifier returns low when       *)
(* n <= 3, medium when 4 <= n <= 5 and high when n >= 6, and these are the *)
(* boundaries of the thresholds object.                                    *)
(***************************************************************************)
C8_Severity ==
    /\ thresholds.lowMax = 3
    /\ thresholds.mediumMax = 5
    /\ (pc = "classified" /\ count >= 0) =>
        /\ count <= 3 => severity = "low"
        /\ (4 <= count /\ count <= 5) => severity = "medium"
        /\ count >= 6 => severity = "high"

C8_Witness == pc = "classified" /\ count = 5 /\ severity = "medium"

(***************************************************************************)
(* C9 (malformed boundary dataset) as claimed: with a dataset that is      *)
(* missing, has no feature collection or has one that is no sequence, the  *)
(* computation does not fail, and its table holds the entries of the       *)
(* complaints alone.                                                       *)
(***************************************************************************)
C9_MalformedIsEmpty ==
    blocksGeoJson.kind # "sequence" =>
        /\ pc # "fault"
        /\ pc = "done" =>
              \A n \in 1..Len(statsByBlock) : statsByBlock[n].total >= 1

(***************************************************************************)
(* C10 (classifier precondition) as claimed: a call with a negative count  *)
(* returns no severity label.                                              *)
(***************************************************************************)
C10_NegativeFails ==
    (pc = "classified" /\ count < 0) =>
        severity \notin {"low", "medium", "high"}

=============================================================================
